---- MODULE Spec2Model ----
(***************************************************************************)
(* Model of src/src/plane.py: the Plane class, a grid of bits stored as a  *)
(* numpy object array of bitarray rows (or one bitarray when the shape has *)
(* length 1).  Python objects live on a heap: `rows` holds the bitarray    *)
(* objects, `bufs` the data buffers of the numpy object arrays.  A numpy   *)
(* array handle names a buffer, a shape and the buffer positions it covers *)
(* in flat (C) order, so that a basic-index result shares the buffer and a *)
(* list-index result owns a copy of the references.                        *)
(***************************************************************************)
EXTENDS Integers, Sequences, FiniteSets, TLC

VARIABLES rows, bufs, parent, view, origin, op, result

vars == <<rows, bufs, parent, view, origin, op, result>>

\* ---------------------------------------------------------------- bounds
MaxRank == 3
MaxOuter == 2
MaxWidth == 2
MaxBits == 4
FlatRank == 3
FlatOuter == 3
FlatWidth == 8

\* ------------------------------------------------------- plain helpers
RECURSIVE Prod(_)
Prod(s) == IF s = <<>> THEN 1 ELSE Head(s) * Prod(Tail(s))

Front(s) == SubSeq(s, 1, Len(s) - 1)

Last(s) == s[Len(s)]

RECURSIVE Pow2(_)
Pow2(n) == IF n = 0 THEN 1 ELSE 2 * Pow2(n - 1)

RECURSIVE Uniq(_)
Uniq(s) ==
    IF s = <<>> THEN <<>>
    ELSE LET u == Uniq(Front(s))
         IN  IF \E i \in 1..Len(u) : u[i] = Last(s) THEN u ELSE Append(u, Last(s))

Pos(s, x) == CHOOSE i \in 1..Len(s) : s[i] = x

RECURSIVE Concat(_)
Concat(ss) == IF ss = <<>> THEN <<>> ELSE Head(ss) \o Concat(Tail(ss))

Zeros(n) == [i \in 1..n |-> 0]

Iota(n) == [i \in 1..n |-> i]

\* ------------------------------------------------- outcomes of a call
Outcome(k, v) == [kind |-> k, val |-> v, copy |-> <<>>]

Raise(e) == Outcome("error", e)

NoPlane == [shape |-> <<>>, N |-> 0, grid |-> [kind |-> "none"]]

BitArray(r) == [kind |-> "bitarray", row |-> r]

NdArray(b, sh, cs) == [kind |-> "ndarray", buf |-> b, shape |-> sh, cells |-> cs]

\* ------------------------------------------ Python / bitarray / numpy
\* Python's index normalisation: a negative index counts from the end.
Norm(i, d) == IF i < 0 THEN i + d ELSE i

InRange(i, d) == -d <= i /\ i < d

\* bitarray.__getitem__ with an integer
BitAt(bits, i) ==
    IF InRange(i, Len(bits)) THEN Outcome("bit", bits[Norm(i, Len(bits)) + 1])
    ELSE Raise("IndexError")

\* slice.indices(d) for a slice start:stop with step 1
Clamp(i, d) == LET n == Norm(i, d) IN IF n < 0 THEN 0 ELSE IF n > d THEN d ELSE n

SliceLen(a, b, d) == IF Clamp(b, d) > Clamp(a, d) THEN Clamp(b, d) - Clamp(a, d) ELSE 0

\* position of a (normalised) integer index tuple among the rows, C order
RECURSIVE RowMajor(_, _)
RowMajor(sh, idx) ==
    IF idx = <<>> THEN 0
    ELSE Norm(Head(idx), Head(sh)) * Prod(Tail(sh)) + RowMajor(Tail(sh), Tail(idx))

Size(a) == Prod(a.shape)

\* the row object at flat position i of an object array (ndarray.flat[i])
FlatRow(a, i) == bufs[a.buf][a.cells[i]]

\* ndarray.__getitem__ with a tuple of integers
NdGetTuple(a, idx) ==
    IF Len(idx) > Len(a.shape) THEN Raise("IndexError")
    ELSE IF \E j \in 1..Len(idx) : ~InRange(idx[j], a.shape[j]) THEN Raise("IndexError")
    ELSE LET k    == Len(idx)
             rest == SubSeq(a.shape, k + 1, Len(a.shape))
             off  == RowMajor(a.shape, idx)
         IN  IF k = Len(a.shape)
             THEN Outcome("element", FlatRow(a, off + 1))
             ELSE Outcome("array",
                          NdArray(a.buf, rest, SubSeq(a.cells, off + 1, off + Prod(rest))))

\* ndarray.__getitem__ with a slice start:stop over the first dimension
NdGetSlice(a, s) ==
    IF Len(a.shape) = 0 THEN Raise("IndexError")
    ELSE LET d   == a.shape[1]
             blk == Prod(Tail(a.shape))
             n   == SliceLen(s[1], s[2], d)
             lo  == Clamp(s[1], d)
         IN  Outcome("array",
                     NdArray(a.buf, <<n>> \o Tail(a.shape),
                             SubSeq(a.cells, lo * blk + 1, (lo + n) * blk)))

\* ndarray.__getitem__ with a list of integers: a copy of the references
NdGetList(a, l) ==
    IF Len(a.shape) = 0 THEN Raise("IndexError")
    ELSE IF \E j \in 1..Len(l) : ~InRange(l[j], a.shape[1]) THEN Raise("IndexError")
    ELSE LET d   == a.shape[1]
             blk == Prod(Tail(a.shape))
             src == Concat([j \in 1..Len(l) |->
                       SubSeq(a.cells, Norm(l[j], d) * blk + 1, (Norm(l[j], d) + 1) * blk)])
         IN  [kind |-> "array",
              val  |-> NdArray(Len(bufs) + 1, <<Len(l)>> \o Tail(a.shape), Iota(Len(src))),
              copy |-> [i \in 1..Len(src) |-> bufs[a.buf][src[i]]]]

\* ------------------------------------------------------------ Plane
PlaneOfFirstDim(shape, grid) ==
    [shape |-> shape, N |-> IF Len(shape) = 0 THEN 0 ELSE Head(shape), grid |-> grid]

\* Plane.__init__ given storage: the fields are stored as given
PlaneOf(shape, grid) ==
    [shape |-> shape, N |-> IF Len(shape) = 0 THEN 0 ELSE Last(shape), grid |-> grid]

\* the grid Plane.__init__ allocates when no storage is given: one zero row
\* for a shape of length 1, else an object array of shape[:-1] whose every
\* element is its own zero row
FreshGrid(shape) ==
    IF Len(shape) = 1 THEN BitArray(1)
    ELSE NdArray(1, Front(shape), Iota(Prod(Front(shape))))

FreshRows(shape) ==
    LET N == IF Len(shape) = 0 THEN 0 ELSE Last(shape)
    IN  IF Len(shape) = 1 THEN <<Zeros(N)>>
        ELSE [i \in 1..Prod(Front(shape)) |-> Zeros(N)]

FreshBufs(shape) ==
    IF Len(shape) = 1 THEN <<>> ELSE <<Iota(Prod(Front(shape)))>>

\* the plane an operation is called on
Target(t) == IF t = "parent" THEN parent ELSE view

\* Plane.__getitem__
getitem(p, form, idx) ==
    IF form = "tuple" THEN
        IF Len(idx) = Len(p.shape) THEN
            IF p.grid.kind = "bitarray" THEN Raise("TypeError")
            ELSE LET b_array == NdGetTuple(p.grid, Front(idx))
                 IN  IF b_array.kind = "error" THEN b_array
                     ELSE IF idx = <<>> THEN Raise("IndexError")
                     ELSE IF b_array.kind = "element"
                          THEN BitAt(rows[b_array.val], Last(idx))
                     ELSE LET e == NdGetTuple(b_array.val, <<Last(idx)>>)
                          IN  IF e.kind = "element" THEN Outcome("row", rows[e.val]) ELSE e
        ELSE
            IF p.grid.kind = "bitarray" THEN Raise("TypeError")
            ELSE LET subgrid == NdGetTuple(p.grid, idx)
                 IN  IF subgrid.kind = "error" THEN subgrid
                     ELSE IF subgrid.kind = "element" THEN Raise("AttributeError")
                     ELSE Outcome("view", PlaneOf(subgrid.val.shape \o <<p.N>>, subgrid.val))
    ELSE IF Len(p.shape) = 1 THEN
        LET bits == rows[p.grid.row]
        IN  IF form = "list" THEN
                IF \E j \in 1..Len(idx) : ~InRange(idx[j], Len(bits)) THEN Raise("IndexError")
                ELSE Outcome("bits", [j \in 1..Len(idx) |-> bits[Norm(idx[j], Len(bits)) + 1]])
            ELSE IF form = "int" THEN BitAt(bits, idx[1])
            ELSE LET lo == Clamp(idx[1], Len(bits))
                 IN  Outcome("row", SubSeq(bits, lo + 1, lo + SliceLen(idx[1], idx[2], Len(bits))))
    ELSE
        LET tmp == IF form = "int" THEN NdGetTuple(p.grid, idx)
                   ELSE IF form = "slice" THEN NdGetSlice(p.grid, idx)
                   ELSE NdGetList(p.grid, idx)
        IN  IF tmp.kind = "error" THEN tmp
            ELSE IF tmp.kind = "element"
                 THEN Outcome("view", PlaneOf(<<p.N>>, BitArray(tmp.val)))
            ELSE [kind |-> "view",
                  val  |-> PlaneOf(tmp.val.shape \o <<p.N>>, tmp.val),
                  copy |-> tmp.copy]

\* bin(v)[2:], most significant digit first
RECURSIVE Bin(_)
Bin(v) == IF v < 2 THEN <<v>> ELSE Append(Bin(v \div 2), v % 2)

\* str.zfill(n)
zfill(s, n) == IF Len(s) >= n THEN s ELSE Zeros(n - Len(s)) \o s

max_u_inclusive(N) == Pow2(N)

\* max_u in Plane.randomize
max_u(N) == Pow2(N) - 1

\* the values random.randrange(0, max_u) can return
Draws(N) == 0..(max_u(N) - 1)

\* the bitarray built from one draw: bitarray(gen().zfill(self.N))
gen(v, N) == zfill(Bin(v), N)

\* Plane.flatten: the loop over reversed(range(len(coordinate[:-1]))),
\* i being the 1-based position in the coordinate
RECURSIVE FlattenLoopShifted(_, _, _, _, _)
FlattenLoopShifted(shape, c, i, flat_index, gridprod) ==
    IF i = 0 THEN Outcome("pair", <<flat_index, Last(c)>>)
    ELSE IF i + 1 > Len(shape) THEN Raise("IndexError")
    ELSE FlattenLoopShifted(shape, c, i - 1, flat_index + c[i] * gridprod,
                            gridprod * shape[i + 1])

RECURSIVE FlattenLoop(_, _, _, _, _)
FlattenLoop(shape, c, i, flat_index, gridprod) ==
    IF i = 0 THEN Outcome("pair", <<flat_index, Last(c)>>)
    ELSE IF i > Len(shape) THEN Raise("IndexError")
    ELSE FlattenLoop(shape, c, i - 1, flat_index + c[i] * gridprod, gridprod * shape[i])

flatten(p, c) ==
    IF c = <<>> THEN Raise("IndexError")
    ELSE FlattenLoop(p.shape, c, Len(c) - 1, 0, 1)

\* Plane.bits
bits(p) ==
    IF Len(p.shape) = 1
    THEN LET r == rows[p.grid.row]
         IN  Outcome("dense", [shape |-> <<Len(r)>>, cells |-> r])
    ELSE LET n   == Size(p.grid)
             tmp == [i \in 1..n |-> rows[FlatRow(p.grid, i)]]
         IN  IF \E i, j \in 1..n : Len(tmp[i]) # Len(tmp[j])
             THEN IF Prod(p.shape) = n THEN Outcome("ragged", tmp) ELSE Raise("ValueError")
             ELSE IF Prod(p.shape) = Len(Concat(tmp))
                  THEN Outcome("dense", [shape |-> p.shape, cells |-> Concat(tmp)])
                  ELSE Raise("ValueError")

\* ------------------------------------------------------------- heap
\* The row objects and buffers a plane keeps alive.
GridBufs(g) == IF g.kind = "ndarray" THEN <<g.buf>> ELSE <<>>

GridRefs(g, bs) ==
    IF g.kind = "bitarray" THEN <<g.row>>
    ELSE IF g.kind = "ndarray" THEN bs[g.buf]
    ELSE <<>>

\* Reference counting: objects no plane refers to are freed.  Addresses carry
\* no meaning, so the live objects are renumbered in the order parent, view.
Renumber(g, bufOrder, rowOrder) ==
    IF g.kind = "bitarray" THEN BitArray(Pos(rowOrder, g.row))
    ELSE IF g.kind = "ndarray" THEN [g EXCEPT !.buf = Pos(bufOrder, g.buf)]
    ELSE g

Live(rs, bs, par, vw, bufOrder, rowOrder) ==
    [rows   |-> [i \in 1..Len(rowOrder) |-> rs[rowOrder[i]]],
     bufs   |-> [i \in 1..Len(bufOrder) |->
                   [j \in 1..Len(bs[bufOrder[i]]) |-> Pos(rowOrder, bs[bufOrder[i]][j])]],
     parent |-> [par EXCEPT !.grid = Renumber(par.grid, bufOrder, rowOrder)],
     view   |-> [vw EXCEPT !.grid = Renumber(vw.grid, bufOrder, rowOrder)]]

LiveRows(bs, par, vw, bufOrder) ==
    Uniq(Concat([i \in 1..Len(bufOrder) |-> bs[bufOrder[i]]])
         \o GridRefs(par.grid, bs) \o GridRefs(vw.grid, bs))

LiveBufs(par, vw) == Uniq(GridBufs(par.grid) \o GridBufs(vw.grid))

Collect(rs, bs, par, vw) ==
    Live(rs, bs, par, vw, LiveBufs(par, vw), LiveRows(bs, par, vw, LiveBufs(par, vw)))

\* the row objects of a plane in flat order
PlaneRows(p, bs) ==
    IF p.grid.kind = "bitarray" THEN <<p.grid.row>>
    ELSE IF p.grid.kind = "ndarray"
         THEN [i \in 1..Size(p.grid) |-> bs[p.grid.buf][p.grid.cells[i]]]
    ELSE <<>>

\* For a view just built by indexing: the flat position, in the parent, of
\* the row each of its rows is (the equivalent coordinate); <<>> if some row
\* of it is not a row of the parent.
OriginOf(par, vw, bs) ==
    LET pr == PlaneRows(par, bs)
        vr == PlaneRows(vw, bs)
    IN  IF \A i \in 1..Len(vr) : \E j \in 1..Len(pr) : pr[j] = vr[i]
        THEN [i \in 1..Len(vr) |-> Pos(pr, vr[i])]
        ELSE <<>>

\* ----------------------------------------------------------- inputs
\* the shapes of k outer dimensions, each of 1..m
RECURSIVE OuterShapesUpTo(_, _)
OuterShapesUpTo(m, k) ==
    IF k = 0 THEN {<<>>}
    ELSE {<<d>> \o s : d \in 1..m, s \in OuterShapesUpTo(m, k - 1)}

OuterShapes(k) == OuterShapesUpTo(MaxOuter, k)

\* the shapes a grid is built with: at most MaxBits rows, and at most MaxBits
\* bits in all
Shapes ==
    {<<>>} \cup
    {s \in {Append(o, n) : o \in UNION {OuterShapes(k) : k \in 0..(MaxRank - 1)},
                           n \in 0..MaxWidth} :
        Prod(Front(s)) <= MaxBits /\ Prod(s) <= MaxBits}

Offsets(d) == (-(d + 1))..d

\* coordinate tuples of length k with every component a valid offset (offset 0
\* standing in where a dimension is empty or absent)
RECURSIVE BaseTuples(_, _)
BaseTuples(shape, k) ==
    IF k = 0 THEN {<<>>}
    ELSE {Append(t, x) : t \in BaseTuples(shape, k - 1),
                         x \in (IF k <= Len(shape) /\ shape[k] > 0
                                THEN 0..(shape[k] - 1) ELSE {0})}

\* those, and the all-zero tuple with one component moved anywhere in -(d+1)..d
Tuples(shape, k) ==
    BaseTuples(shape, k) \cup
    UNION {{[Zeros(k) EXCEPT ![j] = x] : x \in Offsets(shape[j])} :
              j \in 1..(IF k <= Len(shape) THEN k ELSE Len(shape))}

\* index tuples: up to the length of the shape, and valid ones one too long
TupleInputs(p) ==
    UNION {Tuples(p.shape, k) : k \in 0..Len(p.shape)} \cup BaseTuples(p.shape, Len(p.shape) + 1)

\* coordinates handed to flatten: any length up to two more than the shape's
CoordInputs(p) == UNION {BaseTuples(p.shape, k) : k \in 0..(Len(p.shape) + 2)}

FirstDim(p) == IF p.shape = <<>> THEN 0 ELSE p.shape[1]

IntInputs(p) == {<<i>> : i \in Offsets(FirstDim(p))}

SliceInputs(p) == {<<a, b>> : a, b \in 0..FirstDim(p)}

ListInputs(p) ==
    {<<a>> : a \in (-1)..FirstDim(p)} \cup {<<a, b>> : a, b \in 0..FirstDim(p)}

Inputs(p, form) ==
    IF form = "tuple" THEN TupleInputs(p)
    ELSE IF form = "int" THEN IntInputs(p)
    ELSE IF form = "slice" THEN SliceInputs(p)
    ELSE ListInputs(p)

Forms == {"tuple", "int", "slice", "list"}

Targets == {"parent", "view"}

Call(name, t, form, idx) == [name |-> name, target |-> t, form |-> form, idx |-> idx]

\* the caller is between two calls
Idle == Call("idle", "parent", "none", <<>>)

\* an operation can be called on plane t
Callable(t) == op = Idle /\ Target(t) # NoPlane

\* ------------------------------------------------------ state machine
Init ==
    \E shape \in Shapes :
        /\ rows = FreshRows(shape)
        /\ bufs = FreshBufs(shape)
        /\ parent = PlaneOf(shape, FreshGrid(shape))
        /\ view = NoPlane
        /\ origin = <<>>
        /\ op = Call("init", "parent", "none", shape)
        /\ result = Outcome("plane", PlaneOf(shape, FreshGrid(shape)))

\* the heap after an operation, garbage collected
Store(rs, bs, par, vw) ==
    \E c \in {Collect(rs, bs, par, vw)} :
        /\ rows' = c.rows
        /\ bufs' = c.bufs
        /\ parent' = c.parent
        /\ view' = c.view

\* v = parent[index]: a view the parent returns is kept in `view`; what a
\* view returns is only looked at
Get(t, form, idx) ==
    /\ Callable(t)
    /\ op' = Call("get", t, form, idx)
    /\ \E r \in {getitem(Target(t), form, idx)} :
           IF r.kind = "view" /\ t = "parent"
           THEN LET bs == IF r.val.grid.kind = "ndarray" /\ r.val.grid.buf = Len(bufs) + 1
                          THEN Append(bufs, r.copy) ELSE bufs
                IN  /\ Store(rows, bs, parent, r.val)
                    /\ result' = Outcome("view", view')
                    /\ origin' = OriginOf(parent', view', bufs')
           ELSE /\ result' = Outcome(r.kind, r.val)
                /\ UNCHANGED <<rows, bufs, parent, view, origin>>

\* Plane.randomize
Randomize(t) ==
    /\ Callable(t)
    /\ op' = Call("randomize", t, "none", <<>>)
    /\ UNCHANGED origin
    /\ LET p == Target(t)
       IN  IF Len(p.shape) = 0
           THEN result' = Outcome("none", 0) /\ UNCHANGED <<rows, bufs, parent, view>>
           ELSE IF Len(p.shape) = 1
           THEN IF max_u(p.N) <= 0
                THEN result' = Raise("ValueError") /\ UNCHANGED <<rows, bufs, parent, view>>
                ELSE \E v \in Draws(p.N) :
                        LET q == [p EXCEPT !.grid = BitArray(Len(rows) + 1)]
                        IN  /\ Store(Append(rows, gen(v, p.N)), bufs,
                                     IF t = "parent" THEN q ELSE parent,
                                     IF t = "view" THEN q ELSE view)
                            /\ result' = Outcome("none", 0)
           ELSE IF Size(p.grid) = 0
           THEN result' = Outcome("none", 0) /\ UNCHANGED <<rows, bufs, parent, view>>
           ELSE IF max_u(p.N) <= 0
           THEN result' = Raise("ValueError") /\ UNCHANGED <<rows, bufs, parent, view>>
           ELSE \E f \in [1..Size(p.grid) -> Draws(p.N)] :
                   LET g  == p.grid
                       rs == rows \o [i \in 1..Size(g) |-> gen(f[i], p.N)]
                       bs == [bufs EXCEPT ![g.buf] =
                                [j \in 1..Len(@) |->
                                    IF \E i \in 1..Size(g) : g.cells[i] = j
                                    THEN Len(rows) + Pos(g.cells, j)
                                    ELSE @[j]]]
                   IN  /\ Store(rs, bs, parent, view)
                       /\ result' = Outcome("none", 0)

\* Plane.flatten
Flatten(t, c) ==
    /\ Callable(t)
    /\ op' = Call("flatten", t, "tuple", c)
    /\ result' = flatten(Target(t), c)
    /\ UNCHANGED <<rows, bufs, parent, view, origin>>

\* Plane.bits
Bits(t) ==
    /\ Callable(t)
    /\ op' = Call("bits", t, "none", <<>>)
    /\ result' = bits(Target(t))
    /\ UNCHANGED <<rows, bufs, parent, view, origin>>

\* A collaborator writes one bit of the row at flat position i of a plane:
\* plane.grid.flat[i][k] = v (plane.grid[k] = v when the grid is one row).
SetBit(t, i, k, v) ==
    /\ Callable(t)
    /\ i \in 1..Len(PlaneRows(Target(t), bufs))
    /\ k \in 1..Len(rows[PlaneRows(Target(t), bufs)[i]])
    /\ rows' = [rows EXCEPT ![PlaneRows(Target(t), bufs)[i]][k] = v]
    /\ op' = Call("setbit", t, "none", <<i, k, v>>)
    /\ result' = Outcome("none", 0)
    /\ UNCHANGED <<bufs, parent, view, origin>>

\* Plane(shape, grid) over the storage of an existing plane
Construct(shape, t) ==
    /\ Callable(t)
    /\ (Len(shape) = 1) <=> (Target(t).grid.kind = "bitarray")
    /\ op' = Call("construct", t, "none", shape)
    /\ LET q == PlaneOf(shape, Target(t).grid)
       IN  /\ Store(rows, bufs, parent, q)
           /\ result' = Outcome("plane", Collect(rows, bufs, parent, q).view)
    /\ origin' = <<>>

\* the caller has taken the outcome of the last call and goes on
Return ==
    /\ op # Idle
    /\ op' = Idle
    /\ result' = Outcome("none", 0)
    /\ UNCHANGED <<rows, bufs, parent, view, origin>>

\* the planes a call can be made on: all there are, once the caller is
\* between two calls
Ready == IF op = Idle THEN {t \in Targets : Target(t) # NoPlane} ELSE {}

Next ==
    \/ \E t \in Ready, form \in Forms : \E idx \in Inputs(Target(t), form) : Get(t, form, idx)
    \/ \E t \in Ready : Randomize(t)
    \/ \E t \in Ready : \E c \in CoordInputs(Target(t)) : Flatten(t, c)
    \/ \E t \in Ready : Bits(t)
    \/ Return

Spec == Init /\ [][Next]_vars

\* ------------------------------------- construction over given storage
\* a caller builds planes over the storage of the planes it holds
ConstructNext ==
    \/ \E shape \in Shapes, t \in Ready : Construct(shape, t)
    \/ \E t \in Ready : Bits(t)
    \/ Return

SpecConstruct == Init /\ [][ConstructNext]_vars

\* ------------------------------------------- randomize on a lone grid
\* a caller that holds one grid, writes single bits and randomizes it
RandomizeNext ==
    \/ \E t \in Ready : Randomize(t)
    \/ \E t \in Ready, i \in 1..MaxBits, k \in 1..MaxWidth, v \in {0, 1} : SetBit(t, i, k, v)
    \/ Return

SpecRandomize == Init /\ [][RandomizeNext]_vars

\* ----------------------------------------- flatten on its own, wider
FlatShapes ==
    {Append(o, n) : o \in UNION {OuterShapesUpTo(FlatOuter, k) : k \in 0..(FlatRank - 1)},
                    n \in 1..FlatWidth}

FlatInit ==
    \E shape \in FlatShapes :
        /\ rows = FreshRows(shape)
        /\ bufs = FreshBufs(shape)
        /\ parent = PlaneOf(shape, FreshGrid(shape))
        /\ view = NoPlane
        /\ origin = <<>>
        /\ op = Idle
        /\ result = Outcome("none", 0)

FlatNext ==
    \/ \E t \in Ready : \E c \in CoordInputs(Target(t)) : Flatten(t, c)
    \/ Return

SpecFlatten == FlatInit /\ [][FlatNext]_vars

\* ============================================================ claims
\* c is a full coordinate of the shape, every component within its dimension
ValidCoord(shape, c) ==
    Len(c) = Len(shape) /\ \A j \in 1..Len(c) : c[j] >= 0 /\ c[j] < shape[j]

ValidCoords(shape) == {c \in BaseTuples(shape, Len(shape)) : ValidCoord(shape, c)}

\* the plane the last call was made on
Callee == Target(op.target)

\* the bits of the row at flat position i of a plane
RowBits(p, i) == rows[PlaneRows(p, bufs)[i]]

\* sum over the outer dimensions i of c[i] * product of shape[i+1 .. len-2]
\* (positions counted from 0 as in the claim; here from 1)
RECURSIVE LinearIndex(_, _, _)
LinearIndex(shape, c, i) ==
    IF i >= Len(shape) THEN 0
    ELSE c[i] * Prod(SubSeq(shape, i + 1, Len(shape) - 1)) + LinearIndex(shape, c, i + 1)

C6_AfterFlatten ==
    (op.name = "flatten" /\ ValidCoord(Callee.shape, op.idx)) =>
        LET s == Callee.shape
            c == op.idx
        IN  /\ result = Outcome("pair", <<LinearIndex(s, c, 1), Last(c)>>)
            /\ result.val[1] >= 0 /\ result.val[1] < Prod(Front(s))
            /\ \A d \in ValidCoords(s) :
                   Front(d) # Front(c) => flatten(Callee, d).val[1] # result.val[1]
            /\ (Len(s) = 1 => result.val = <<0, c[1]>>)
            /\ (s = <<2, 3, 4>> /\ c = <<1, 2, 0>> => result.val = <<5, 0>>)
            /\ (s = <<8>> /\ c = <<3>> => result.val = <<0, 3>>)

\* C6: flatten(c) of a full valid coordinate is (row-major linear index of
\* c[:-1] in an array of shape[:-1], c[-1]); distinct outer coordinates get
\* distinct indices within 0..prod(shape[:-1])-1; a one-dimensional grid gives
\* (0, k); shape (2,3,4) gives flatten((1,2,0)) = (5,0); and the call leaves
\* the storage and the planes as they were.
C6_FlattenRowMajor ==
    /\ []C6_AfterFlatten
    /\ [][op'.name = "flatten" => UNCHANGED <<rows, bufs, parent, view, origin>>]_vars

C6_Witness ==
    /\ op.name = "flatten"
    /\ parent.shape = <<2, 3, 4>>
    /\ op.idx = <<1, 2, 0>>
    /\ result.val = <<5, 0>>

AllOnes(N) == [i \in 1..N |-> 1]

Patterns(N) == [1..N -> {0, 1}]

\* C10: right after randomize() on a grid with N >= 1 no row has all N bits
\* set, and the rows a draw can produce are exactly the other N-bit patterns.
C10_NeverAllOnes ==
    /\ (op.name = "randomize" /\ result.kind = "none" /\ Callee.N >= 1) =>
           \A i \in 1..Len(PlaneRows(Callee, bufs)) : RowBits(Callee, i) # AllOnes(Callee.N)
    /\ \A N \in 1..MaxWidth : {gen(v, N) : v \in Draws(N)} = Patterns(N) \ {AllOnes(N)}

C10_Witness ==
    /\ op.name = "randomize"
    /\ result.kind = "none"
    /\ parent.N = 2
    /\ Len(PlaneRows(parent, bufs)) = 2
    /\ RowBits(parent, 1) = <<1, 0>>
    /\ RowBits(parent, 2) = <<0, 1>>

\* C7: randomize() on a grid with a non-empty shape, whatever N >= 0,
\* completes and leaves every row of the grid with exactly N bits.
C7_RandomizeWidth ==
    (op.name = "randomize" /\ Len(Callee.shape) >= 1) =>
        /\ result.kind # "error"
        /\ \A i \in 1..Len(PlaneRows(Callee, bufs)) : Len(RowBits(Callee, i)) = Callee.N

\* the declared bit width of a plane
WidthOf(shape) == IF Len(shape) = 0 THEN 0 ELSE Last(shape)

C9_Widths ==
    /\ parent.N = WidthOf(parent.shape)
    /\ view # NoPlane => view.N = WidthOf(view.shape) /\ view.N = parent.N
    /\ (op.name = "get" /\ result.kind = "view") =>
           result.val.N = WidthOf(result.val.shape) /\ result.val.N = Callee.N

\* a step that puts a new view in place of the old one
NewView == op'.name = "get" /\ op'.target = "parent" /\ result'.kind = "view"

\* C9: every grid and every view got from it by indexing has
\* bit_width = shape[-1] (0 for the empty shape), a view has the bit width of
\* the plane it was got from, and no operation changes the shape or the bit
\* width of a plane once it is built.
C9_ShapeInvariant ==
    /\ []C9_Widths
    /\ [][/\ parent'.shape = parent.shape
          /\ parent'.N = parent.N
          /\ (view # NoPlane /\ ~NewView) => (view'.shape = view.shape /\ view'.N = view.N)]_vars

C9_Witness ==
    /\ op.name = "randomize"
    /\ op.target = "view"
    /\ result.kind = "none"
    /\ parent.shape = <<2, 1, 2>>
    /\ view.shape = <<1, 2>>
    /\ view.N = 2

\* C1: get(c) with a valid full coordinate, on any grid or view whose shape
\* has length >= 1, returns a single bit, the bit at offset flatten(c)[1] of
\* the row at flat position flatten(c)[0] of the storage.
C1_FullIndexBit ==
    (op.name = "get" /\ op.form = "tuple" /\ Len(Callee.shape) >= 1
        /\ ValidCoord(Callee.shape, op.idx)) =>
        LET f == flatten(Callee, op.idx).val
        IN  /\ result.kind = "bit"
            /\ result.val = RowBits(Callee, f[1] + 1)[f[2] + 1]

\* C2: every bit read through a view got by indexing equals the bit read
\* through the parent at the equivalent coordinate, after any sequence of
\* mutations of the parent or of the view.
C2_ViewAliasing ==
    (view # NoPlane /\ origin # <<>>) =>
        \A i \in 1..Len(origin) : RowBits(view, i) = RowBits(parent, origin[i])

\* a tuple of k in-range integers with 1 <= k < len(shape)
PartialCoord(shape, c) ==
    /\ Len(c) >= 1
    /\ Len(c) < Len(shape)
    /\ \A j \in 1..Len(c) : c[j] >= 0 /\ c[j] < shape[j]

PartialCoords(shape) ==
    {c \in UNION {BaseTuples(shape, k) : k \in 1..(Len(shape) - 1)} : PartialCoord(shape, c)}

\* C3: get with a tuple of k in-range integers, 1 <= k < len(shape), returns a
\* view of shape shape[k:], and a further partial tuple on that view gives the
\* view the concatenated tuple gives on the grid.
C3_PartialView ==
    (op.name = "get" /\ op.form = "tuple" /\ op.target = "parent"
        /\ PartialCoord(parent.shape, op.idx)) =>
        /\ result.kind = "view"
        /\ result.val.shape = SubSeq(parent.shape, Len(op.idx) + 1, Len(parent.shape))
        /\ \A d \in PartialCoords(result.val.shape) :
               LET direct == getitem(parent, "tuple", op.idx \o d)
                   again  == getitem(result.val, "tuple", d)
               IN  /\ again.kind = "view"
                   /\ again = direct

\* C4: get with a tuple longer than the shape, or with a component outside
\* 0..dim-1 (negative offsets included), fails: it raises the error the call
\* has for a bad index (IndexOutOfBounds) and returns no bit and no view.
C4_OutOfBounds ==
    (op.name = "get" /\ op.form = "tuple"
        /\ \/ Len(op.idx) > Len(Callee.shape)
           \/ \E j \in 1..Len(op.idx) :
                 j <= Len(Callee.shape) /\ (op.idx[j] < 0 \/ op.idx[j] >= Callee.shape[j])) =>
        result.kind = "error"

\* the dense structure read at a coordinate
DenseAt(d, c) == d.cells[LinearIndex(d.shape \o <<1>>, c \o <<0>>, 1) + 1]

\* C8: materialize() has the grid's shape and materialize()[c] = bool(get(c))
\* at every valid full coordinate c, for any grid or view with a non-empty
\* shape.
C8_Materialize ==
    (op.name = "bits" /\ Len(Callee.shape) >= 1) =>
        /\ result.kind = "dense"
        /\ result.val.shape = Callee.shape
        /\ \A c \in ValidCoords(Callee.shape) :
               LET g == getitem(Callee, "tuple", c)
               IN  g.kind = "bit" /\ DenseAt(result.val, c) = g.val

\* the storage has the dimensions the shape declares
Matches(shape, grid) ==
    IF grid.kind = "bitarray"
    THEN Len(shape) = 1 /\ Len(rows[grid.row]) = shape[1]
    ELSE /\ grid.shape = Front(shape)
         /\ \A i \in 1..Size(grid) : Len(rows[FlatRow(grid, i)]) = WidthOf(shape)

\* C5: construct(shape, storage) with storage whose dimensions do not match
\* the shape fails with ShapeMismatch; no plane with mismatching shape and
\* storage is produced.
C5_ShapeMismatch ==
    /\ (op.name = "construct" /\ ~Matches(op.idx, view.grid)) => result = Raise("ShapeMismatch")
    /\ view # NoPlane => Matches(view.shape, view.grid)

====
